---------------------------- MODULE Spec2Model ----------------------------
(***************************************************************************)
(* Model of vtkplotter.utils.buildPolyData (src/vtkplotter/utils.py), of   *)
(* ProgressBar, makeBands and cameraFromQuaternion of the same file, and   *)
(* of Group and Assembly (src/vedo/assembly.py).                           *)
(*                                                                         *)
(* Spec follows whole calls of buildPolyData, SpecProgress its face loop   *)
(* face by face, SpecBar a ProgressBar on its own, SpecBands and           *)
(* SpecCamera one call of makeBands and of cameraFromQuaternion,           *)
(* SpecAssembly and SpecGroup the objects of assembly.py.  The variables   *)
(* of the parts a specification does not follow stay as they start.        *)
(*                                                                         *)
(* In Spec:                                                                *)
(* The state is a caller holding the argument objects (vertices, faces,    *)
(* lines, indexOffset, fast) and the meshes returned by its calls.  One    *)
(* action, Call, is one whole call of buildPolyData on those objects.      *)
(*                                                                         *)
(* A mesh (vtkPolyData) is a record of its point array and its three cell  *)
(* arrays (verts, lines, polys); a cell is the sequence of its point ids.  *)
(* A cell array that the code never sets is empty, as in a fresh           *)
(* vtkPolyData.  VTK's SetId / InsertNextCell / SetCells do no range check *)
(* on point ids, so ids are plain integers.                                *)
(*                                                                         *)
(* An optional argument is a record [isNone, rows]: isNone is Python's     *)
(* `x is None`.  faces.rows are the caller's row lists.  np.array(faces)   *)
(* (line 253) copies a rectangular table into a 2-D array, and turns a     *)
(* ragged list into a 1-D object array whose elements are the caller's own *)
(* row lists (the NumPy the code was written for), so that an in-place     *)
(* update of a row of a ragged list is seen by the caller.  Each row of a  *)
(* face list is an object of its own (no row object is listed twice).      *)
(***************************************************************************)
EXTENDS Integers, Sequences, FiniteSets, TLC

VARIABLES vertices, faces, lines, indexOffset, fast, poly, prev, calls

\* The face loop of one build, followed face by face (see SpecProgress).
VARIABLES nfaces, slowpath, pc, done, showbar, pb

\* The vedo objects there are, and what the last operation on them returned
\* (see SpecAssembly and SpecGroup).
VARIABLES heap, ret

\* The arguments of a call of one of the functions of utils.py that keep no
\* state, and what the call returned (see SpecBands and SpecCamera).
VARIABLES args, result

buildVars == <<vertices, faces, lines, indexOffset, fast, poly, prev, calls>>

progVars == <<nfaces, slowpath, pc, done, showbar, pb>>

asmVars == <<heap, ret>>

utilVars == <<args, result>>

vars == <<buildVars, progVars, asmVars, utilVars>>

\* ---------------------------------------------------------------- bounds
MaxPoints == 2      \* most points in an enumerated point set
MaxCoord  == 1      \* coordinates are drawn from 0..MaxCoord
MaxIdx    == 1      \* raw face / line indices are drawn from 0..MaxIdx
MaxRowLen == 5      \* longest face row
MaxFaces  == 2      \* most rows in an enumerated face list
MaxLines  == 4      \* longest enumerated lines list
MaxCalls  == 2      \* successive calls on the same argument objects
MaxOver   == 2      \* face counts go up to ShowBarLimit + MaxOver
MaxObjects == 3     \* most vedo objects alive at a time
MaxArgs   == 2      \* longest list given to a constructor or to +=
MaxLen    == 2      \* + is not called on an assembly of MaxLen objects
MaxInput  == 3      \* longest list given to makeBands
MaxValue  == 3      \* its values are drawn from 0..MaxValue
MaxBands  == 3      \* numberOfBands is drawn from 0..MaxBands
MaxStop   == 3      \* a bar followed on its own has 0 <= start <= stop <= MaxStop
MaxWrites == 4      \* and is printed until it was written MaxWrites times
MaxDist   == 2      \* the camera's distance is drawn from 1..MaxDist
MaxPos    == 1      \* the coordinates of its pos from 0..MaxPos

\* ---------------------------------------------------- values and helpers
None == [isNone |-> TRUE, rows |-> <<>>]

Some(rows) == [isNone |-> FALSE, rows |-> rows]

SeqsUpTo(S, n) == UNION {[1..k -> S] : k \in 0..n}

RECURSIVE Concat(_)
Concat(ss) == IF ss = <<>> THEN <<>> ELSE Head(ss) \o Concat(Tail(ss))

\* The mesh a fresh vtkPolyData() is (line 224), with its points set.
PolyData(points) ==
    [status |-> "ok", points |-> points, verts |-> <<>>, lines |-> <<>>, polys |-> <<>>]

\* No mesh: the state of the caller's result before any call.
NoPoly == [PolyData(<<>>) EXCEPT !.status = "none"]

\* The call raised instead of returning (the exception's type).
Raised(exc) == [PolyData(<<>>) EXCEPT !.status = exc]

\* ------------------------------------------------- points (lines 219-228)
\* np.c_[np.array(vertices), np.zeros(len(vertices))]: one more column of 0.
c_(a) == [i \in 1..Len(a) |-> Append(a[i], 0)]

\* Pad3d with the second padding (lines 221-222) left out.
Pad3d_OneColumn(v) == IF Len(v[1]) < 3 THEN c_(v) ELSE v

\* Lines 219-222: the first point's length decides; a second column is
\* added when the first padding left two columns.
Pad3d(v) ==
    IF Len(v[1]) < 3
    THEN LET v1 == c_(v)
         IN  IF Len(v1[1]) = 2 THEN c_(v1) ELSE v1
    ELSE v

\* ----------------------------------------------- line cells (lines 230-239)
\* linesarr with the loop started at 0: range(0, len(lines)-1).
linesarr_FromZero(l) == [k \in 1..(Len(l) - 1) |-> <<l[k], l[k + 1]>>]

\* for i in range(1, len(lines)-1): cell (lines[i], lines[i+1]); Python
\* index i is position i+1 here.
linesarr(l) == [k \in 1..(Len(l) - 2) |-> <<l[k + 1], l[k + 2]>>]

\* --------------------------------------------- vertex cells (lines 242-249)
\* sourceVertices with the ids counted from 1.
sourceVertices_OneBased(n) == [i \in 1..n |-> <<i>>]

\* for i in range(len(vertices)): a one-point cell holding i.
sourceVertices(n) == [i \in 1..n |-> <<i - 1>>]

\* ------------------------------------------------- faces (lines 252-330)
\* np.array(faces).shape has two axes: at least one row, all of one length.
Is2D(rows) ==
    /\ Len(rows) >= 1
    /\ \A j \in 1..Len(rows) : Len(rows[j]) = Len(rows[1])

\* FastPath with the fast argument ignored.
FastPath_NoFlag(rows, off, fst) == Is2D(rows) /\ off = 0

\* Line 254.
FastPath(rows, off, fst) == Is2D(rows) /\ off = 0 /\ fst

\* Line 262: every row prefixed by the column count nc, then flattened.
hs(rows) ==
    LET nc == Len(rows[1])
    IN  Concat([j \in 1..Len(rows) |-> <<nc>> \o rows[j]])

\* vtkCellArray.SetCells(nf, arr): nf cells read off the flat buffer, each
\* as a count followed by that many ids.
RECURSIVE SetCells(_, _)
SetCells(nf, arr) ==
    IF nf = 0 THEN <<>>
    ELSE LET n == arr[1]
         IN  <<SubSeq(arr, 2, n + 1)>> \o SetCells(nf - 1, SubSeq(arr, n + 2, Len(arr)))

\* QuadTriangles with the last triangle closed on the second vertex.
QuadTriangles_LastOnB(f) ==
    << <<f[1], f[2], f[3]>>,
       <<f[1], f[2], f[4]>>,
       <<f[2], f[3], f[4]>>,
       <<f[3], f[4], f[2]>> >>

\* Lines 293-318: the four triangles of a 4-index row f (already offset).
QuadTriangles(f) ==
    << <<f[1], f[2], f[3]>>,
       <<f[1], f[2], f[4]>>,
       <<f[2], f[3], f[4]>>,
       <<f[3], f[4], f[1]>> >>

\* Lines 290-292: f[i] -= indexOffset on a 4-index row (a no-op when
\* indexOffset is 0).
Decremented(f, off) == [i \in 1..Len(f) |-> f[i] - off]

\* FaceCells with the ids of a triangle or an n-gon set to f[i] as it is.
FaceCells_NoOffset(f, off) ==
    IF Len(f) = 4 THEN QuadTriangles(Decremented(f, off)) ELSE <<f>>

\* Lines 274-326: the cells one row adds to sourcePolygons.
FaceCells(f, off) ==
    LET n == Len(f)
    IN  IF n = 3 THEN << [i \in 1..3 |-> f[i] - off] >>
        ELSE IF n = 4 THEN QuadTriangles(Decremented(f, off))
        ELSE << [i \in 1..n |-> f[i] - off] >>

\* SlowPolygons with the rows taken last to first.
SlowPolygons_Reversed(rows, off) ==
    Concat([j \in 1..Len(rows) |-> FaceCells(rows[Len(rows) + 1 - j], off)])

\* Lines 266-328: the rows in order.
SlowPolygons(rows, off) == Concat([j \in 1..Len(rows) |-> FaceCells(rows[j], off)])

\* FastPolygons handling the rows as the slow path does.
FastPolygons_RowByRow(rows) == SlowPolygons(rows, 0)

\* Lines 257-264.
FastPolygons(rows) == SetCells(Len(rows), hs(rows))

\* Lines 252-330.
sourcePolygons(rows, off, fst) ==
    IF FastPath(rows, off, fst) THEN FastPolygons(rows) ELSE SlowPolygons(rows, off)

\* RowsAfter with every row of a ragged list decremented, not only the
\* 4-index rows.
RowsAfter_AllRows(rows, off) ==
    IF Is2D(rows) THEN rows
    ELSE [j \in 1..Len(rows) |-> Decremented(rows[j], off)]

\* The caller's rows after the call: on the slow path the 4-index rows are
\* decremented in place (lines 290-292).  Rows of a 2-D table are rows of
\* the copy made at line 253; rows of a ragged list are the caller's lists.
RowsAfter(rows, off) ==
    IF Is2D(rows) THEN rows
    ELSE [j \in 1..Len(rows) |->
             IF Len(rows[j]) = 4 THEN Decremented(rows[j], off) ELSE rows[j]]

\* ------------------------------------------------------- buildPolyData
\* buildPolyData without the early return of line 249: the vertex cells are
\* set whether or not faces are given.
buildPolyData_NoReturn(v, f, l, off, fst) ==
    IF v = <<>>
    THEN [poly |-> Raised("IndexError"), faces |-> f]
    ELSE LET pts == Pad3d(v)
             p0  == PolyData(pts)
             p1  == IF l.isNone THEN p0 ELSE [p0 EXCEPT !.lines = linesarr(l.rows)]
             p2  == [p1 EXCEPT !.verts = sourceVertices(Len(pts))]
         IN  IF f.isNone
             THEN [poly |-> p2, faces |-> f]
             ELSE [poly  |-> [p2 EXCEPT !.polys = sourcePolygons(f.rows, off, fst)],
                   faces |-> Some(RowsAfter(f.rows, off))]

\* Lines 203-331.  The result is the returned mesh (or the exception) and
\* the caller's face rows as the call leaves them.
buildPolyData(v, f, l, off, fst) ==
    IF v = <<>>
    THEN [poly |-> Raised("IndexError"), faces |-> f]         \* vertices[0], line 219
    ELSE LET pts == Pad3d(v)
             p0  == PolyData(pts)
             p1  == IF l.isNone THEN p0 ELSE [p0 EXCEPT !.lines = linesarr(l.rows)]
         IN  IF f.isNone
             THEN [poly  |-> [p1 EXCEPT !.verts = sourceVertices(Len(pts))],
                   faces |-> f]
             ELSE [poly  |-> [p1 EXCEPT !.polys = sourcePolygons(f.rows, off, fst)],
                   faces |-> Some(RowsAfter(f.rows, off))]

\* ------------------------------------------- vedo objects (assembly.py)
\* The objects live in the slots 1..MaxObjects of heap; an object is named
\* by its slot, and 0 stands for None.  A vedo object has an attribute
\* actor: an Assembly and a Group are their own actor (lines 228 and 83), as
\* is a mesh-like object whose class derives from vtkProp3D; any other
\* mesh-like object i wraps a vtkActor of its own, named -i.  A prop is
\* what a vtkAssembly or a vtkPropAssembly holds as a part: a slot or such
\* an actor.  Only what the operations read is kept of an object: its
\* class, its pickable flag, its position and its lists.  The scalarbar and
\* pipeline book-keeping of Assembly (lines 243-260, 377-392) touches none
\* of these and is left out.
Ids == 1..MaxObjects

Free == [kind |-> "free", isProp3D |-> FALSE, pickable |-> FALSE,
         position |-> <<0, 0, 0>>, objects |-> <<>>, actors |-> <<>>, parts |-> <<>>]

Allocated(h) == {i \in Ids : h[i].kind # "free"}

\* The slot a new object takes.
NewSlot(h) == CHOOSE i \in Ids : h[i].kind = "free" /\ \A j \in 1..(i - 1) : h[j].kind # "free"

\* obj.actor
actor(h, i) == IF h[i].kind = "Mesh" /\ ~h[i].isProp3D THEN 0 - i ELSE i

\* isinstance(p, vtk.get_class("Prop3D")) for an object or an actor p.
IsProp3D(h, p) == IF p < 0 THEN TRUE ELSE h[p].isProp3D

\* isinstance(p, vtkProp): what AddPart accepts.
IsProp(h, p) == p < 0 \/ h[p].kind \in {"Assembly", "Group"} \/ h[p].isProp3D

\* A mesh-like object as its constructor leaves it.
Mesh(isP3D, pick) == [Free EXCEPT !.kind = "Mesh", !.isProp3D = isP3D, !.pickable = pick]

\* vtkAssembly / vtkPropAssembly AddPart: a part is held once.
AddPart(parts, p) ==
    IF \E i \in 1..Len(parts) : parts[i] = p THEN parts ELSE Append(parts, p)

RECURSIVE AddParts(_, _)
AddParts(parts, ps) ==
    IF ps = <<>> THEN parts ELSE AddParts(AddPart(parts, Head(ps)), Tail(ps))

\* RemovePart: the part is taken out, the others keep their order.
RemovePart(parts, p) == LET Other(q) == q # p IN SelectSeq(parts, Other)

\* A list of objects as the list of entries a call returns.
Entries(objs) == [i \in 1..Len(objs) |-> [obj |-> objs[i], cloned |-> FALSE]]

\* What a call returned: itself, a list or nothing, with the call's
\* receiver and arguments.  list is the list returned; for a call that
\* returns no list it is the list the call was given (Assembly(meshs),
\* Group(objects), g += objs) or went through (clear).
Ret(op, self, obj, given, value, kind, list) ==
    [op |-> op, self |-> self, obj |-> obj, given |-> given, value |-> value,
     kind |-> kind, list |-> list]

NoRet == Ret("none", 0, 0, FALSE, FALSE, "none", <<>>)

\* No vedo object is followed.
AsmIdle == heap = [i \in Ids |-> Free] /\ ret = NoRet

\* No call made, nothing returned.
NoArgs == [fn |-> "none"]

NoResult == [kind |-> "none"]

UtilIdle == args = NoArgs /\ result = NoResult

\* No caller of buildPolyData is followed: no arguments, no mesh.
BuildIdle ==
    /\ vertices = <<>> /\ faces = None /\ lines = None
    /\ indexOffset = 0 /\ fast = TRUE
    /\ poly = NoPoly /\ prev = NoPoly /\ calls = 0

\* ------------------------------------------------ ProgressBar (47-176)
\* The empty string _oldbar starts as: no bar text equals it.
NoText == [nh |-> -1, ps |-> <<>>]

\* No ProgressBar object.
NoBar == [start |-> 0, stop |-> 0, step |-> 0, counts |-> 0, percent |-> 0,
          bar |-> NoText, oldbar |-> NoText, writes |-> 0]

\* int(round(n / d)) for n >= 0 and d > 0: Python 3 rounds a half to even.
Round(n, d) ==
    LET q == n \div d
        r == n % d
    IN  IF 2 * r < d THEN q
        ELSE IF 2 * r > d THEN q + 1
        ELSE IF q % 2 = 0 THEN q ELSE q + 1

\* The width of the bar between its brackets: af = self.width - 2, line 164.
BarWidth == 22

\* Lines 151-176.  The bar's text is fixed by the number nh of filled
\* places and by the percentage printed after it (none at 100).
pb_update(b, counts) ==
    LET c   == IF counts < b.start THEN b.start
               ELSE IF counts > b.stop THEN b.stop ELSE counts
        dd  == b.stop - b.start
        pct == IF dd # 0 THEN Round((c - b.start) * 100, dd) ELSE 0
        nh  == Round(pct * BarWidth, 100)
    IN  [b EXCEPT !.counts = c, !.percent = pct,
                  !.bar = [nh |-> nh, ps |-> IF pct < 100 THEN <<pct>> ELSE <<>>]]

\* Lines 63-88: ProgressBar(start, stop) with step=1.
ProgressBar(start, stop) ==
    LET b0 == [NoBar EXCEPT !.start = start, !.stop = stop, !.step = 1]
    IN  [pb_update(b0, 0) EXCEPT !.counts = 0, !.oldbar = NoText]

\* pb_print with the step left out: the count is updated to itself.
pb_print_NoStep(b) ==
    LET u == pb_update(b, b.counts)
    IN  IF u.bar # u.oldbar
        THEN [u EXCEPT !.oldbar = u.bar, !.writes = u.writes + 1]
        ELSE u

\* Lines 90-141, print(txt) with no counts given (counts=None is falsy):
\* the count moves on by step, and the bar is written when its text changed.
pb_print(b) ==
    LET u == pb_update(b, b.counts + b.step)
    IN  IF u.bar # u.oldbar
        THEN [u EXCEPT !.oldbar = u.bar, !.writes = u.writes + 1]
        ELSE u

\* ------------------------------------- the face loop, face by face
\* len(faces) > 25000, line 269.
ShowBarLimit == 25000

\* ShowBar with the limit itself included.
ShowBar_AtLimit(n) == n >= ShowBarLimit

\* Lines 269-270: whether a build of n faces shows a bar.
ShowBar(n) == n > ShowBarLimit

\* The face counts followed: a few small ones and those around the limit.
FaceCounts == (0..1) \cup ((ShowBarLimit - 1)..(ShowBarLimit + MaxOver))

\* No build is being followed.
ProgIdle ==
    /\ nfaces = 0 /\ slowpath = FALSE /\ pc = "idle" /\ done = 0
    /\ showbar = FALSE /\ pb = NoBar

\* A build of nfaces faces about to choose its path at line 254; the fast path
\* needs a 2-D table, which has at least one row.
InitProgress ==
    /\ nfaces \in FaceCounts
    /\ slowpath \in BOOLEAN
    /\ slowpath \/ nfaces >= 1
    /\ pc = "faces" /\ done = 0
    /\ showbar = FALSE /\ pb = NoBar
    /\ BuildIdle
    /\ AsmIdle
    /\ UtilIdle

\* Lines 254-264: the fast path writes all the cells at once.
BulkWrite ==
    /\ pc = "faces" /\ ~slowpath
    /\ pc' = "done"
    /\ UNCHANGED <<nfaces, slowpath, done, showbar, pb>>
    /\ UNCHANGED <<buildVars, asmVars, utilVars>>

\* Lines 266-271: the slow path starts, with a bar for more than 25000 faces.
StartLoop ==
    /\ pc = "faces" /\ slowpath
    /\ showbar' = ShowBar(nfaces)
    /\ pb' = IF ShowBar(nfaces) THEN ProgressBar(0, nfaces) ELSE pb
    /\ pc' = "loop"
    /\ UNCHANGED <<nfaces, slowpath, done>>
    /\ UNCHANGED <<buildVars, asmVars, utilVars>>

\* Lines 273-328: one face is added, then the bar is printed if there is one.
Face ==
    /\ pc = "loop" /\ done < nfaces
    /\ done' = done + 1
    /\ pb' = IF showbar THEN pb_print(pb) ELSE pb
    /\ UNCHANGED <<nfaces, slowpath, pc, showbar>>
    /\ UNCHANGED <<buildVars, asmVars, utilVars>>

\* Lines 330-331: the loop is over and the mesh is returned.
EndLoop ==
    /\ pc = "loop" /\ done = nfaces
    /\ pc' = "done"
    /\ UNCHANGED <<nfaces, slowpath, done, showbar, pb>>
    /\ UNCHANGED <<buildVars, asmVars, utilVars>>

NextProgress == BulkWrite \/ StartLoop \/ Face \/ EndLoop

SpecProgress == InitProgress /\ [][NextProgress]_vars

\* ------------------------------------------ a ProgressBar on its own
\* Lines 90-95, print(txt, counts) with counts given: a falsy counts, which
\* 0 is, takes the branch of no counts (line 94).
pb_print_counts(b, counts) ==
    LET u == IF counts # 0 THEN pb_update(b, counts)
             ELSE pb_update(b, b.counts + b.step)
    IN  IF u.bar # u.oldbar
        THEN [u EXCEPT !.oldbar = u.bar, !.writes = u.writes + 1]
        ELSE u

\* pb = ProgressBar(start, stop)
InitBar ==
    /\ \E start \in 0..MaxStop, stop \in 0..MaxStop :
         /\ start <= stop
         /\ pb = ProgressBar(start, stop)
    /\ nfaces = 0 /\ slowpath = FALSE /\ pc = "idle" /\ done = 0 /\ showbar = FALSE
    /\ BuildIdle /\ AsmIdle /\ UtilIdle

\* pb.print(counts=c)
PrintCounts ==
    /\ pb.writes < MaxWrites
    /\ \E c \in (0 - 1)..(MaxStop + 1) :
         /\ pb' = pb_print_counts(pb, c)
         /\ args' = [fn |-> "print", given |-> TRUE, counts |-> c]
    /\ UNCHANGED <<nfaces, slowpath, pc, done, showbar, result, buildVars, asmVars>>

\* pb.print()
PrintStep ==
    /\ pb.writes < MaxWrites
    /\ pb' = pb_print(pb)
    /\ args' = [fn |-> "print", given |-> FALSE, counts |-> 0]
    /\ UNCHANGED <<nfaces, slowpath, pc, done, showbar, result, buildVars, asmVars>>

NextBar == PrintCounts \/ PrintStep

SpecBar == InitBar /\ [][NextBar]_vars

\* ------------------------------------------------ Assembly (206-622)
\* Lines 223-246, meshs being the sequence lines 223-226 leave: the truthy
\* items, their actors, and the actors that are Prop3D as parts.
Assembly_init(h, meshs) ==
    LET Truthy(m) == m # 0
        objs == SelectSeq(meshs, Truthy)
        acts == [i \in 1..Len(objs) |-> actor(h, objs[i])]
        IsP3D(a) == IsProp3D(h, a)
    IN  [Free EXCEPT !.kind = "Assembly", !.isProp3D = TRUE, !.pickable = TRUE,
                     !.objects = objs, !.actors = acts,
                     !.parts = AddParts(<<>>, SelectSeq(acts, IsP3D))]

\* Assembly_add with line 374 left out: the actor is not appended.
Assembly_add_NoActor(h, a, obj) ==
    IF IsProp3D(h, obj)
    THEN [h EXCEPT ![a].objects = Append(@, obj),
                   ![a].parts   = AddPart(@, actor(h, obj))]
    ELSE h

\* Lines 367-393: the heap after a + obj (a itself is returned).
Assembly_add(h, a, obj) ==
    IF IsProp3D(h, obj)
    THEN [h EXCEPT ![a].objects = Append(@, obj),
                   ![a].actors  = Append(@, actor(h, obj)),
                   ![a].parts   = AddPart(@, actor(h, obj))]
    ELSE h

\* Lines 395-397: obj in a.
Assembly_contains(h, a, obj) == \E i \in 1..Len(h[a].objects) : h[a].objects[i] = obj

\* Lines 560-571: a.unpack().
Assembly_unpack(h, a) == h[a].objects

\* Lines 424-440 and 400-407: a.pos(p) moves a to p.
Assembly_pos(h, a, p) == [h EXCEPT ![a].position = p]

\* Lines 579-601: list(_genflatten([a])).  lst[0] is a, an Assembly, so lst
\* becomes a.unpack(); an Assembly among its elements gives its own
\* elements, as shifted clones when the sum of its position is not 0.
recursive_unpack(h, a) ==
    LET lst == h[a].objects
        Of(elem) ==
            IF h[elem].kind = "Assembly"
            THEN LET apos == h[elem].position
                     asum == apos[1] + apos[2] + apos[3]
                     sub  == h[elem].objects
                 IN  [i \in 1..Len(sub) |-> [obj |-> sub[i], cloned |-> asum # 0]]
            ELSE << [obj |-> elem, cloned |-> FALSE] >>
    IN  Concat([i \in 1..Len(lst) |-> Of(lst[i])])

\* Lines 604-610: the heap after a.pickable(value) (a itself is returned).
\* elem.pickable(value) on a clone changes the clone only; on an Assembly it
\* is this method again; on any other object it sets the object's flag.
RECURSIVE Assembly_pickable(_, _, _)
RECURSIVE EachPickable(_, _, _)
Assembly_pickable(h, a, value) ==
    LET h1 == [h EXCEPT ![a].pickable = value]
    IN  EachPickable(h1, recursive_unpack(h1, a), value)

EachPickable(h, elems, value) ==
    IF elems = <<>> THEN h
    ELSE LET e  == Head(elems)
             h2 == IF e.cloned THEN h
                   ELSE IF h[e.obj].kind = "Assembly"
                        THEN Assembly_pickable(h, e.obj, value)
                        ELSE [h EXCEPT ![e.obj].pickable = value]
         IN  EachPickable(h2, Tail(elems), value)

\* The objects held by a, by what a holds, and so on.
RECURSIVE Within(_, _, _)
Within(h, S, n) ==
    IF n = 0 THEN S
    ELSE Within(h, S \cup UNION {{h[i].objects[j] : j \in 1..Len(h[i].objects)} : i \in S}, n - 1)

Inside(h, a) == Within(h, {h[a].objects[j] : j \in 1..Len(h[a].objects)}, MaxObjects)

Positions == {<<0, 0, 0>>, <<1, 0, 0>>}

Assemblies(h) == {i \in Ids : h[i].kind = "Assembly"}

\* A mesh-like object is made, pickable or not, of a class that derives
\* from vtkProp3D or of one that wraps its actor.
NewMesh ==
    /\ \E i \in Ids : heap[i].kind = "free"
    /\ \E isP3D \in BOOLEAN, pick \in BOOLEAN :
         /\ heap' = [heap EXCEPT ![NewSlot(heap)] = Mesh(isP3D, pick)]
         /\ ret' = Ret("Mesh", NewSlot(heap), 0, FALSE, FALSE, "self", <<>>)
    /\ UNCHANGED <<buildVars, progVars, utilVars>>

\* Assembly(meshs), meshs a list of objects and None.
NewAssembly ==
    /\ \E i \in Ids : heap[i].kind = "free"
    /\ \E meshs \in SeqsUpTo(Allocated(heap) \cup {0}, MaxArgs) :
         /\ heap' = [heap EXCEPT ![NewSlot(heap)] = Assembly_init(heap, meshs)]
         /\ ret' = Ret("Assembly", NewSlot(heap), 0, TRUE, FALSE, "self", Entries(meshs))
    /\ UNCHANGED <<buildVars, progVars, utilVars>>

\* a + obj, for an object that does not hold a.
Add ==
    /\ \E a \in Assemblies(heap), obj \in Allocated(heap) :
         /\ heap[obj].kind \in {"Mesh", "Assembly"}
         /\ obj # a /\ a \notin Inside(heap, obj)
         /\ Len(heap[a].objects) < MaxLen
         /\ heap' = Assembly_add(heap, a, obj)
         /\ ret' = Ret("add", a, obj, TRUE, FALSE, "self", <<>>)
    /\ UNCHANGED <<buildVars, progVars, utilVars>>

\* a.pos(p)
SetPos ==
    /\ \E a \in Assemblies(heap), p \in Positions :
         /\ heap' = Assembly_pos(heap, a, p)
         /\ ret' = Ret("pos", a, 0, TRUE, FALSE, "self", <<>>)
    /\ UNCHANGED <<buildVars, progVars, utilVars>>

\* a.pickable(value), and a.pickable() for which value is True (line 604).
Pickable ==
    /\ \E a \in Assemblies(heap), given \in BOOLEAN, value \in BOOLEAN :
         /\ given \/ value
         /\ heap' = Assembly_pickable(heap, a, value)
         /\ ret' = Ret("pickable", a, 0, given, value, "self", <<>>)
    /\ UNCHANGED <<buildVars, progVars, utilVars>>

\* a.unpack()
Unpack ==
    /\ \E a \in Assemblies(heap) :
         ret' = Ret("unpack", a, 0, FALSE, FALSE, "list", Entries(Assembly_unpack(heap, a)))
    /\ UNCHANGED <<heap, buildVars, progVars, utilVars>>

\* a.recursive_unpack()
RecursiveUnpack ==
    /\ \E a \in Assemblies(heap) :
         ret' = Ret("recursive_unpack", a, 0, FALSE, FALSE, "list", recursive_unpack(heap, a))
    /\ UNCHANGED <<heap, buildVars, progVars, utilVars>>

InitAssembly == BuildIdle /\ ProgIdle /\ AsmIdle /\ UtilIdle

NextAssembly ==
    NewMesh \/ NewAssembly \/ Add \/ SetPos \/ Pickable \/ Unpack \/ RecursiveUnpack

SpecAssembly == InitAssembly /\ [][NextAssembly]_vars

\* --------------------------------------------------- Group (75-202)
\* Lines 78-102: the truthy objects' actors as parts, not pickable.
Group_init(h, objects) ==
    LET Truthy(a) == a # 0
        objs == SelectSeq(objects, Truthy)
    IN  [Free EXCEPT !.kind = "Group", !.pickable = FALSE,
                     !.parts = AddParts(<<>>, [i \in 1..Len(objs) |-> actor(h, objs[i])])]

\* Lines 105-114, obj being the list line 109 leaves: the parts after
\* g += obj, and whether AddPart raised TypeError on an item that is no
\* vtkProp; the items before it are added then.
RECURSIVE Group_iadd(_, _, _)
Group_iadd(h, parts, obj) ==
    IF obj = <<>> THEN [parts |-> parts, raised |-> FALSE]
    ELSE LET a == Head(obj)
         IN  IF a = 0 THEN Group_iadd(h, parts, Tail(obj))
             ELSE IF ~IsProp(h, a) THEN [parts |-> parts, raised |-> TRUE]
             ELSE Group_iadd(h, AddPart(parts, a), Tail(obj))

\* Lines 116-135: g.unpack(), a new list of the parts.
Group_unpack(h, g) == h[g].parts

RECURSIVE RemoveParts(_, _)
RemoveParts(parts, elements) ==
    IF elements = <<>> THEN parts
    ELSE RemoveParts(RemovePart(parts, Head(elements)), Tail(elements))

\* Not the code: the parts are removed while the collection itself is gone
\* through by index.
RECURSIVE RemoveLive(_, _)
RemoveLive(parts, i) ==
    IF i > Len(parts) THEN parts ELSE RemoveLive(RemovePart(parts, parts[i]), i + 1)

Group_clear_Live(h, g) == [h EXCEPT ![g].parts = RemoveLive(@, 1)]

\* Lines 137-141: the heap after g.clear() (g itself is returned).
Group_clear(h, g) == [h EXCEPT ![g].parts = RemoveParts(@, Group_unpack(h, g))]

Groups(h) == {i \in Ids : h[i].kind = "Group"}

Meshes(h) == {i \in Ids : h[i].kind = "Mesh"}

\* What a program gives to +=: None, a mesh-like object, or the actor of one
\* that wraps its actor.
Items(h) == {0} \cup Meshes(h) \cup {0 - i : i \in {j \in Meshes(h) : ~h[j].isProp3D}}

\* Group(objects), objects a list of mesh-like objects and None.
NewGroup ==
    /\ \E i \in Ids : heap[i].kind = "free"
    /\ \E objects \in SeqsUpTo(Meshes(heap) \cup {0}, MaxArgs) :
         /\ heap' = [heap EXCEPT ![NewSlot(heap)] = Group_init(heap, objects)]
         /\ ret' = Ret("Group", NewSlot(heap), 0, TRUE, FALSE, "self", Entries(objects))
    /\ UNCHANGED <<buildVars, progVars, utilVars>>

\* g += obj
GroupIAdd ==
    /\ \E g \in Groups(heap), obj \in SeqsUpTo(Items(heap), MaxArgs) :
         LET r == Group_iadd(heap, heap[g].parts, obj)
         IN  /\ heap' = [heap EXCEPT ![g].parts = r.parts]
             /\ ret' = Ret("iadd", g, 0, TRUE, FALSE,
                           IF r.raised THEN "TypeError" ELSE "self", Entries(obj))
    /\ UNCHANGED <<buildVars, progVars, utilVars>>

\* g.unpack()
GroupUnpack ==
    /\ \E g \in Groups(heap) :
         ret' = Ret("unpack", g, 0, FALSE, FALSE, "list", Entries(Group_unpack(heap, g)))
    /\ UNCHANGED <<heap, buildVars, progVars, utilVars>>

\* g.clear()
GroupClear ==
    /\ \E g \in Groups(heap) :
         /\ heap' = Group_clear(heap, g)
         /\ ret' = Ret("clear", g, 0, FALSE, FALSE, "self", Entries(Group_unpack(heap, g)))
    /\ UNCHANGED <<buildVars, progVars, utilVars>>

NextGroup == NewMesh \/ NewGroup \/ GroupIAdd \/ GroupUnpack \/ GroupClear

SpecGroup == InitAssembly /\ [][NextGroup]_vars

\* ------------------------------------------------ makeBands (1045-1068)
\* The numbers of makeBands are kept exact: a number is a pair <<p, q>> that
\* stands for p / q, q > 0.
SeqMin(xs) == CHOOSE x \in {xs[i] : i \in 1..Len(xs)} : \A i \in 1..Len(xs) : x <= xs[i]

SeqMax(xs) == CHOOSE x \in {xs[i] : i \in 1..Len(xs)} : \A i \in 1..Len(xs) : x >= xs[i]

Abs(x) == IF x < 0 THEN 0 - x ELSE x

\* Lines 1056-1058: with dr = (vmax - vmin) / n, the i-th entry of bb
\* (i from 0) is vmin + i * dr + dr / 2, here times 2 * n.
bb(inputlist, n, i) ==
    SeqMin(inputlist) * 2 * n + (2 * i + 1) * (SeqMax(inputlist) - SeqMin(inputlist))

\* Line 1064: abs(s - b) < tol for b the i-th entry of bb, tol being
\* dr / 2 * 1.001 (line 1059); both sides times 2000 * n.
Near(inputlist, n, s, i) ==
    Abs(s * 2 * n - bb(inputlist, n, i)) * 1000
        < 1001 * (SeqMax(inputlist) - SeqMin(inputlist))

\* Lines 1052-1068.  For each s the first b of bb that is near is appended,
\* and nothing when none is.
makeBands(inputlist, numberOfBands) ==
    IF numberOfBands < 2
    THEN [kind |-> "list", vals |-> [i \in 1..Len(inputlist) |-> <<inputlist[i], 1>>]]
    ELSE LET n == numberOfBands
             Of(s) ==
                 IF \E i \in 0..(n - 1) : Near(inputlist, n, s, i)
                 THEN LET i == CHOOSE i \in 0..(n - 1) :
                                   /\ Near(inputlist, n, s, i)
                                   /\ \A j \in 0..(i - 1) : ~Near(inputlist, n, s, j)
                      IN  << <<bb(inputlist, n, i), 2 * n>> >>
                 ELSE <<>>
         IN  [kind |-> "array",
              vals |-> Concat([i \in 1..Len(inputlist) |-> Of(inputlist[i])])]

\* A call of makeBands on a list that is not empty.
InitBands ==
    /\ \E k \in 1..MaxInput :
         \E inputlist \in [1..k -> 0..MaxValue], numberOfBands \in 0..MaxBands :
            args = [fn |-> "makeBands", inputlist |-> inputlist,
                    numberOfBands |-> numberOfBands]
    /\ result = NoResult
    /\ BuildIdle /\ ProgIdle /\ AsmIdle

MakeBands ==
    /\ args.fn = "makeBands" /\ result = NoResult
    /\ result' = makeBands(args.inputlist, args.numberOfBands)
    /\ UNCHANGED <<args, buildVars, progVars, asmVars>>

NextBands == MakeBands

SpecBands == InitBands /\ [][NextBands]_vars

\* ------------------------------------- cameraFromQuaternion (1136-1186)
\* Vectors are triples of integers.  The quaternions followed are those
\* whose rotation matrix has integer entries, so that the matrix and the
\* two half turns of the camera are exact.
Dot(a, b) == a[1] * b[1] + a[2] * b[2] + a[3] * b[3]

Plus(a, b) == <<a[1] + b[1], a[2] + b[2], a[3] + b[3]>>

\* np.dot(M, x) for a matrix M given as the sequence of its rows.
MatVec(M, x) == <<Dot(M[1], x), Dot(M[2], x), Dot(M[3], x)>>

\* vtkQuaterniond(w, x, y, z).ToMatrix3x3, lines 1157-1163; the divisions
\* by w*w + x*x + y*y + z*z are exact for the quaternions followed.
ToMatrix3x3(w, x, y, z) ==
    LET nn == w * w + x * x + y * y + z * z
        ss == w * w - (x * x + y * y + z * z)
        E(t) == (2 * t) \div nn
        D(t) == (2 * t + ss) \div nn
    IN  << <<D(x * x),         E(x * y - w * z), E(x * z + w * y)>>,
           <<E(x * y + w * z), D(y * y),         E(y * z - w * x)>>,
           <<E(x * z - w * y), E(y * z + w * x), D(z * z)>> >>

\* A vtkCamera: its position, its focal point and its view up.
Camera(position, focal, viewUp) ==
    [kind |-> "camera", position |-> position, focal |-> focal, viewUp |-> viewUp]

\* camera.Azimuth(-180), line 1177: the position makes a half turn about
\* the view up through the focal point, which is still the origin.
Azimuth180(cam) ==
    LET t == 2 * Dot(cam.position, cam.viewUp)
    IN  [cam EXCEPT !.position = <<t * cam.viewUp[1] - cam.position[1],
                                   t * cam.viewUp[2] - cam.position[2],
                                   t * cam.viewUp[3] - cam.position[3]>>]

\* camera.Roll(180), line 1178: the view up makes a half turn about the
\* line from the position to the focal point (the origin).
Roll180(cam) ==
    LET pp == Dot(cam.position, cam.position)
        t  == 2 * Dot(cam.viewUp, cam.position)
    IN  [cam EXCEPT !.viewUp = <<(t * cam.position[1]) \div pp - cam.viewUp[1],
                                 (t * cam.position[2]) \div pp - cam.viewUp[2],
                                 (t * cam.position[3]) \div pp - cam.viewUp[3]>>]

\* Lines 1136-1186, quaternion being (x, y, z, w).  The name pos is bound
\* again at line 1167, so the argument pos is never read.
cameraFromQuaternion(pos, quaternion, distance, ngl_correct) ==
    LET M    == ToMatrix3x3(quaternion[4], quaternion[1], quaternion[2], quaternion[3])
        up   == <<0, 1, 0>>
        pos2 == <<0, 0, distance>>
        cam0 == Camera(MatVec(M, pos2), <<0, 0, 0>>, MatVec(M, up))
        cam1 == IF ngl_correct THEN Roll180(Azimuth180(cam0)) ELSE cam0
    IN  Camera(Plus(cam1.position, pos2), pos2, cam1.viewUp)

\* The quaternions with entries 0 and 1 and one or two entries 1: the
\* identity, the quarter turns and the half turns.
Quaternions ==
    {q \in [1..4 -> 0..1] : q[1] + q[2] + q[3] + q[4] \in 1..2}

InitCamera ==
    /\ \E pos \in [1..3 -> 0..MaxPos], quaternion \in Quaternions,
          distance \in 1..MaxDist, ngl_correct \in BOOLEAN :
            args = [fn |-> "cameraFromQuaternion", pos |-> pos,
                    quaternion |-> quaternion, distance |-> distance,
                    ngl_correct |-> ngl_correct]
    /\ result = NoResult
    /\ BuildIdle /\ ProgIdle /\ AsmIdle

CameraFromQuaternion ==
    /\ args.fn = "cameraFromQuaternion" /\ result = NoResult
    /\ result' = cameraFromQuaternion(args.pos, args.quaternion, args.distance,
                                      args.ngl_correct)
    /\ UNCHANGED <<args, buildVars, progVars, asmVars>>

NextCamera == CameraFromQuaternion

SpecCamera == InitCamera /\ [][NextCamera]_vars

\* ------------------------------------------------------------- inputs
Coord == 0..MaxCoord

RawIdx == 0..MaxIdx

\* Point sets whose points all have d coordinates.
PointSets(d) == SeqsUpTo([1..d -> Coord], MaxPoints)

\* n points on the x axis, in 3-D.
AxisPoints(n) == [i \in 1..n |-> <<i - 1, 0, 0>>]

\* Every row of at most MaxRowLen raw indices.
Rows == SeqsUpTo(RawIdx, MaxRowLen)

\* The row of n consecutive raw indices from s on.
Ramp(n, s) == [i \in 1..n |-> s + i - 1]

RampRows == {Ramp(n, s) : n \in 0..MaxRowLen, s \in RawIdx}

\* Face lists of several rows: rectangular and ragged ones.
FaceLists == SeqsUpTo(RampRows, MaxFaces)

LineLists == SeqsUpTo(RawIdx, MaxLines)

FewFaces == {None, Some(<<>>), Some(<< <<0, 1, 0>> >>)}

FewLines == {None, Some(<<0, 0, 1>>)}

\* Few points (some rows then address no point) or enough for every ramp.
FewPoints == {AxisPoints(MaxPoints), AxisPoints(MaxRowLen + MaxIdx)}

\* Every point set, with or without simple faces and lines.
InitPoints ==
    /\ vertices \in UNION {PointSets(d) : d \in 1..3}
    /\ faces \in FewFaces
    /\ lines \in FewLines
    /\ indexOffset = 0
    /\ fast = TRUE

\* A single face row, every row there is, under both index offsets and
\* both values of fast.
InitRow ==
    /\ vertices \in FewPoints
    /\ faces \in {Some(<<r>>) : r \in Rows}
    /\ lines = None
    /\ indexOffset \in {0, 1}
    /\ fast \in BOOLEAN

\* Face lists of several rows, under both index offsets and both values of
\* fast.
InitFaces ==
    /\ vertices \in FewPoints
    /\ faces \in {Some(r) : r \in FaceLists}
    /\ lines \in FewLines
    /\ indexOffset \in {0, 1}
    /\ fast \in BOOLEAN

\* Every lines list.
InitLines ==
    /\ vertices \in FewPoints
    /\ faces \in FewFaces
    /\ lines \in {Some(l) : l \in LineLists}
    /\ indexOffset \in {0, 1}
    /\ fast = TRUE

\* The three concrete builds of the specification's test list.
InitScenarios ==
    /\ \/ /\ vertices = << <<0, 0, 0>>, <<1, 0, 0>>, <<1, 1, 0>>, <<0, 1, 0>> >>
          /\ faces = Some(<< <<0, 1, 2, 3>> >>)
          /\ lines = None
       \/ /\ vertices = << <<0, 0>>, <<1, 0>>, <<1, 1>> >>
          /\ faces = None
          /\ lines = None
       \/ /\ vertices = AxisPoints(5)
          /\ faces = None
          /\ lines = Some(<<5, 0, 1, 2, 3>>)
    /\ indexOffset = 0
    /\ fast \in BOOLEAN

Init ==
    /\ InitPoints \/ InitRow \/ InitFaces \/ InitLines \/ InitScenarios
    /\ poly = NoPoly
    /\ prev = NoPoly
    /\ calls = 0
    /\ ProgIdle
    /\ AsmIdle
    /\ UtilIdle

\* ------------------------------------------------------------- actions
\* One call buildPolyData(vertices, faces, lines, indexOffset, fast) on the
\* caller's argument objects; prev keeps the mesh of the call before.
Call ==
    /\ calls < MaxCalls
    /\ LET r == buildPolyData(vertices, faces, lines, indexOffset, fast)
       IN  /\ poly' = r.poly
           /\ faces' = r.faces
    /\ prev' = poly
    /\ calls' = calls + 1
    /\ UNCHANGED <<vertices, lines, indexOffset, fast>>
    /\ UNCHANGED <<progVars, asmVars, utilVars>>

Next == Call

Spec == Init /\ [][Next]_vars

\* ------------------------------------------------------------- claims
\* A call has returned a mesh built from the caller's (non-empty) points.
Built == calls >= 1 /\ vertices # <<>>

\* The step is a call that returns a mesh.
Builds == calls' = calls + 1 /\ vertices # <<>>

\* All rows have one length (a rectangular table).
Uniform(rows) == \A j, k \in 1..Len(rows) : Len(rows[j]) = Len(rows[k])

\* The faces are handled row by row (not by the bulk write).
SlowCase ==
    /\ ~faces.isNone
    /\ ~(Len(faces.rows) >= 1 /\ Uniform(faces.rows) /\ indexOffset = 0 /\ fast)

\* The number of cells a row of length n stands for on the slow path.
Weight(n) == IF n = 4 THEN 4 ELSE 1

\* The number of cells the first j rows stand for.
RECURSIVE CellsBefore(_, _)
CellsBefore(rows, j) ==
    IF j = 0 THEN 0 ELSE CellsBefore(rows, j - 1) + Weight(Len(rows[j]))

Range(f) == {f[i] : i \in 1..Len(f)}

\* Every index of every row, less off, addresses one of n points, and no
\* row lists an index twice.
Proper(rows, off, n) ==
    \A j \in 1..Len(rows) :
        /\ \A i \in 1..Len(rows[j]) : rows[j][i] - off \in 0..(n - 1)
        /\ \A i, k \in 1..Len(rows[j]) : i # k => rows[j][i] # rows[j][k]

\* Every polygon cell of mesh m addresses points of m.
PolysInRange(m) ==
    \A c \in 1..Len(m.polys) : Range(m.polys[c]) \subseteq 0..(Len(m.points) - 1)

\* C1: a non-empty point set built with faces=None and lines=None gives
\* exactly len(points) vertex cells, the i-th holding the one point index i.
C1_VertexCells ==
    (Built /\ faces.isNone /\ lines.isNone) =>
        /\ poly.status = "ok"
        /\ Len(poly.verts) = Len(vertices)
        /\ \A i \in 1..Len(vertices) : poly.verts[i] = <<i - 1>>

C1_Witness ==
    /\ Built /\ faces.isNone /\ lines.isNone
    /\ Len(vertices) = 2 /\ Len(vertices[1]) = 2
    /\ poly.verts = << <<0>>, <<1>> >>

\* C2: a rectangular face table built with indexOffset=0 on the fast path
\* gives len(faces) polygon cells, the j-th listing the indices of row j in
\* the row's order.
C2_FastPathRows ==
    (Built /\ ~faces.isNone /\ Uniform(faces.rows) /\ indexOffset = 0 /\ fast) =>
        /\ Len(poly.polys) = Len(faces.rows)
        /\ \A j \in 1..Len(faces.rows) : poly.polys[j] = faces.rows[j]

C2_Witness ==
    /\ Built /\ indexOffset = 0 /\ fast
    /\ faces = Some(<< <<0, 1, 2, 3>>, <<1, 2, 3, 4>> >>)
    /\ poly.polys = << <<0, 1, 2, 3>>, <<1, 2, 3, 4>> >>

\* The four triangles (a,b,c), (a,b,d), (b,c,d), (c,d,a) of a row.
FourTriangles(f) ==
    << <<f[1], f[2], f[3]>>, <<f[1], f[2], f[4]>>,
       <<f[2], f[3], f[4]>>, <<f[3], f[4], f[1]>> >>

\* A face list of a single 4-index row, built with indexOffset=0.
SingleQuad ==
    /\ Built /\ ~faces.isNone /\ indexOffset = 0
    /\ Len(faces.rows) = 1 /\ Len(faces.rows[1]) = 4

\* C3 as stated: a single 4-index row [a,b,c,d] built with indexOffset=0
\* and the other arguments at their defaults (fast=True) gives exactly the
\* 4 triangle cells (a,b,c), (a,b,d), (b,c,d), (c,d,a).
C3_DefaultQuadSplit ==
    (SingleQuad /\ fast /\ lines.isNone /\ Proper(faces.rows, 0, Len(vertices))) =>
        poly.polys = FourTriangles(faces.rows[1])

\* C3 amended: a single 4-index row [a,b,c,d] built with indexOffset=0
\* gives the 4 triangle cells only with fast=False; with the other
\* arguments at their defaults (fast=True) it gives exactly one polygon
\* cell (a,b,c,d).
C3_QuadByPath ==
    SingleQuad =>
        IF fast THEN poly.polys = << faces.rows[1] >>
                ELSE poly.polys = FourTriangles(faces.rows[1])

C3_Witness ==
    /\ Built /\ indexOffset = 0 /\ fast
    /\ Len(vertices) = 4
    /\ faces = Some(<< <<0, 1, 2, 3>> >>)
    /\ poly.polys = << <<0, 1, 2, 3>> >>

\* Every index of every row plus 1.
ShiftUp(rows) == [j \in 1..Len(rows) |-> [i \in 1..Len(rows[j]) |-> rows[j][i] + 1]]

\* C4: a rectangular face table F built with indexOffset=0, and F with
\* every index raised by 1 built with indexOffset=1 over the same points,
\* give the same polygon cells.
C4_OffsetShift ==
    (/\ Built /\ ~faces.isNone /\ Uniform(faces.rows) /\ indexOffset = 0
     /\ Proper(faces.rows, 0, Len(vertices))) =>
        poly.polys =
            buildPolyData(vertices, Some(ShiftUp(faces.rows)), lines, 1, fast).poly.polys

\* C5: two successive calls with the same argument objects return
\* structurally identical meshes.
C5_SameTwice == (calls >= 2 /\ PolysInRange(prev)) => poly = prev

\* C6: on the slow path the polygon cell count is the number of rows of
\* length other than 4 plus 4 times the number of rows of length 4, and the
\* cells of the rows follow each other in row order, each row giving at
\* least one cell made of its own indices.
C6_SlowPathCount ==
    [][(Builds /\ SlowCase) =>
        LET rows  == faces.rows
            cells == poly'.polys
        IN  /\ Len(cells) = CellsBefore(rows, Len(rows))
            /\ \A j \in 1..Len(rows) :
                 /\ CellsBefore(rows, j) > CellsBefore(rows, j - 1)
                 /\ \A c \in (CellsBefore(rows, j - 1) + 1)..CellsBefore(rows, j) :
                      /\ Len(cells[c]) = IF Len(rows[j]) = 4 THEN 3 ELSE Len(rows[j])
                      /\ \A p \in 1..Len(cells[c]) :
                           cells[c][p] + indexOffset \in Range(rows[j])]_vars

C6_Witness ==
    /\ Built /\ SlowCase /\ indexOffset = 0
    /\ faces = Some(<< <<0, 1, 2, 3>>, <<1, 2, 3, 4, 5>> >>)
    /\ Len(poly.polys) = 5
    /\ poly.polys[5] = <<1, 2, 3, 4, 5>>

\* C7: a 4-index row [a,b,c,d] handled on the slow path gives, at the row's
\* place in the output, exactly the 4 triangle cells (a',b',c'), (a',b',d'),
\* (b',c',d'), (c',d',a') in this order, x' being x - indexOffset; every
\* pair of the row's vertices is an edge of one of them.
C7_QuadTriangles ==
    [][(Builds /\ SlowCase) =>
        LET rows  == faces.rows
            cells == poly'.polys
        IN  \A j \in 1..Len(rows) :
              Len(rows[j]) = 4 =>
                LET f  == [i \in 1..4 |-> rows[j][i] - indexOffset]
                    b  == CellsBefore(rows, j - 1)
                IN  /\ CellsBefore(rows, j) = b + 4
                    /\ SubSeq(cells, b + 1, b + 4) = FourTriangles(f)
                    /\ \A p, q \in 1..4 :
                         \E c \in (b + 1)..(b + 4) :
                           /\ Len(cells[c]) = 3
                           /\ \E s, t \in 1..3 :
                                (p # q => s # t) /\ cells[c][s] = f[p] /\ cells[c][t] = f[q]]_vars

C7_Witness ==
    /\ Built /\ SlowCase /\ indexOffset = 1
    /\ Len(faces.rows) = 2 /\ Len(faces.rows[1]) = 3 /\ Len(faces.rows[2]) = 4
    /\ calls = 1
    /\ SubSeq(poly.polys, 2, 5) = << <<0, 1, 2>>, <<0, 1, 3>>, <<1, 2, 3>>, <<2, 3, 0>> >>

\* C8: when lines is given the line cells are exactly the segments
\* (lines[i], lines[i+1]) for i = 1 .. len(lines)-2 (Python positions), in
\* that order: lines[0] is not used, lines=[5,0,1,2,3] gives (0,1), (1,2),
\* (2,3), and a list of fewer than 2 elements gives no segment.
C8_LineSegments ==
    (Built /\ ~lines.isNone) =>
        LET l == lines.rows
        IN  /\ Len(poly.lines) = IF Len(l) >= 2 THEN Len(l) - 2 ELSE 0
            /\ \A i \in 1..Len(poly.lines) : poly.lines[i] = <<l[i + 1], l[i + 2]>>
            /\ l = <<5, 0, 1, 2, 3>> => poly.lines = << <<0, 1>>, <<1, 2>>, <<2, 3>> >>

C8_Witness ==
    /\ Built
    /\ lines = Some(<<5, 0, 1, 2, 3>>)
    /\ poly.lines = << <<0, 1>>, <<1, 2>>, <<2, 3>> >>

\* C9: points given with 1 or 2 coordinates get zeros appended up to 3
\* coordinates, points with 3 coordinates are kept, and the number and
\* order of the points are kept; 3 points given in 2-D with faces=None give
\* 3 vertex cells.
C9_ZeroPadding ==
    Built =>
        /\ Len(poly.points) = Len(vertices)
        /\ \A i \in 1..Len(vertices) :
             /\ Len(poly.points[i]) = 3
             /\ \A c \in 1..3 :
                  poly.points[i][c] =
                      IF c <= Len(vertices[i]) THEN vertices[i][c] ELSE 0
        /\ (Len(vertices) = 3 /\ Len(vertices[1]) = 2 /\ faces.isNone)
               => Len(poly.verts) = 3

C9_Witness ==
    /\ Built /\ faces.isNone
    /\ vertices = << <<0, 0>>, <<1, 0>>, <<1, 1>> >>
    /\ poly.points = << <<0, 0, 0>>, <<1, 0, 0>>, <<1, 1, 0>> >>
    /\ Len(poly.verts) = 3

\* C10: with zero points the call does not fail and returns an empty mesh
\* (no points, no cells).
C10_EmptyInput ==
    (calls >= 1 /\ vertices = <<>>) =>
        /\ poly.status = "ok"
        /\ poly.points = <<>>
        /\ poly.verts = <<>> /\ poly.lines = <<>> /\ poly.polys = <<>>

\* Every cell of mesh m addresses points of m.
CellsInRange(m) ==
    \A cells \in {m.verts, m.lines, m.polys} :
        \A c \in 1..Len(cells) : Range(cells[c]) \subseteq 0..(Len(m.points) - 1)

\* C11: a face index (less indexOffset) or a line index outside
\* [0, pointCount) makes the call fail with an error and return no mesh: a
\* mesh that is returned has no cell addressing a point that does not exist.
C11_IndexOutOfRange ==
    (calls >= 1 /\ poly.status = "ok") => CellsInRange(poly)

\* C12: a call leaves the caller's points and lines as they were, and so
\* every face row whose length is not 4, and every 4-index row when
\* indexOffset is 0 or the fast path is taken; a 4-index row handled on the
\* slow path with a nonzero indexOffset is either as it was or decremented
\* by indexOffset.
C12_InputsUnchanged ==
    [][calls' = calls + 1 =>
        /\ vertices' = vertices
        /\ lines' = lines
        /\ faces'.isNone = faces.isNone
        /\ Len(faces'.rows) = Len(faces.rows)
        /\ \A j \in 1..Len(faces.rows) :
             LET f == faces.rows[j]
                 g == faces'.rows[j]
             IN  IF Len(f) = 4 /\ indexOffset # 0 /\ SlowCase
                 THEN g = f \/ g = [i \in 1..4 |-> f[i] - indexOffset]
                 ELSE g = f]_vars

C12_Witness ==
    /\ calls = 1 /\ indexOffset = 1
    /\ faces = Some(<< <<1, 2, 3>>, <<0, 1, 2, 3>> >>)
    /\ poly.polys = << <<0, 1, 2>>, <<0, 1, 2>>, <<0, 1, 3>>, <<1, 2, 3>>, <<2, 3, 0>> >>

\* C13: on a slow-path build that shows progress, the count reported after
\* the k-th face is k: the reported counts never go down, never exceed
\* len(faces), and the report after the last face is count = len(faces) at
\* 100 percent.
C13_ProgressCounts ==
    [][(pc = "loop" /\ showbar /\ done' = done + 1) =>
        /\ pb'.counts = done'
        /\ pb'.counts >= pb.counts
        /\ pb'.counts <= nfaces
        /\ done' = nfaces => (pb'.counts = nfaces /\ pb'.percent = 100)]_vars

C13_Witness ==
    /\ pc = "done" /\ showbar
    /\ nfaces = ShowBarLimit + 1 /\ done = nfaces
    /\ pb.counts = nfaces /\ pb.percent = 100

\* C14: indexOffset is subtracted from the entries of lines too: a lines
\* entry v is stored in its segment cell as point index v - indexOffset.
C14_LinesOffset ==
    (Built /\ ~lines.isNone) =>
        LET l == lines.rows
        IN  \A i \in 1..Len(poly.lines) :
              poly.lines[i] = <<l[i + 1] - indexOffset, l[i + 2] - indexOffset>>

\* C15: vertex cells exist exactly when faces is None: with faces given
\* (an empty list too) the mesh has no vertex cell, with faces=None it has
\* one vertex cell per point and no polygon cell; the line cells of a given
\* lines list are there in both cases.
C15_CellKinds ==
    Built =>
        /\ faces.isNone  => Len(poly.verts) = Len(vertices) /\ poly.polys = <<>>
        /\ ~faces.isNone => poly.verts = <<>>
        /\ ~lines.isNone =>
             Len(poly.lines) = IF Len(lines.rows) >= 2 THEN Len(lines.rows) - 2 ELSE 0
        /\ lines.isNone => poly.lines = <<>>

C15_Witness ==
    /\ Built /\ faces = Some(<<>>)
    /\ lines = Some(<<0, 0, 1>>)
    /\ Len(vertices) = 2
    /\ poly.verts = <<>> /\ poly.polys = <<>> /\ poly.lines = << <<0, 1>> >>

\* C16: a + obj adds obj to the assembly a for every object obj that is not
\* None, a mesh-like object or an assembly: afterwards obj in a holds,
\* a.unpack() is the list it was before followed by obj, and the value of
\* a + obj is a itself.
C16_AddAppends ==
    [][ret'.op = "add" =>
        /\ Assembly_contains(heap', ret'.self, ret'.obj)
        /\ Assembly_unpack(heap', ret'.self)
             = Append(Assembly_unpack(heap, ret'.self), ret'.obj)
        /\ ret'.kind = "self"]_vars

\* C17: a.pickable() with no argument is a getter: its value is the
\* pickable flag of the assembly a, and the flags of a and of all the
\* objects are what they were.
C17_PickableGetter ==
    [][(ret'.op = "pickable" /\ ~ret'.given) =>
        /\ heap' = heap
        /\ ret'.kind = "flag"]_vars

\* C18: after a.pickable(v) the assembly a and every object it holds, at
\* any depth of nesting, has the pickable flag v; this is about the objects
\* themselves, not about clones of them.
C18_PickableEverywhere ==
    ret.op = "pickable" =>
        \A x \in {ret.self} \cup Inside(heap, ret.self) : heap[x].pickable = ret.value

\* The objects under x that are not assemblies, depth first in the order of
\* the lists.
RECURSIVE Leaves(_, _)
Leaves(h, x) ==
    IF h[x].kind = "Assembly"
    THEN Concat([i \in 1..Len(h[x].objects) |-> Leaves(h, h[x].objects[i])])
    ELSE <<x>>

\* C19: a.recursive_unpack() is a list that holds no Assembly and has one
\* entry for each object under a that is not an Assembly, depth first in
\* the order of insertion, however deep the nesting is.  (An entry that is
\* a clone counts here as the object it is a clone of.)
C19_FlattenLeaves ==
    ret.op = "recursive_unpack" =>
        /\ \A i \in 1..Len(ret.list) : heap[ret.list[i].obj].kind # "Assembly"
        /\ [i \in 1..Len(ret.list) |-> ret.list[i].obj] = Leaves(heap, ret.self)

\* The objects of a list of entries.
Objs(list) == [i \in 1..Len(list) |-> list[i].obj]

\* new is old followed, in the order in which they first come in given, by
\* the things of given that are neither None nor in old.
InOrder(old, new, given) ==
    LET First(x) == CHOOSE i \in 1..Len(given) :
                        given[i] = x /\ \A j \in 1..(i - 1) : given[j] # x
    IN  /\ Len(new) >= Len(old)
        /\ SubSeq(new, 1, Len(old)) = old
        /\ \A i \in 1..Len(given) :
             given[i] # 0 => \E j \in 1..Len(new) : new[j] = given[i]
        /\ \A i \in (Len(old) + 1)..Len(new) :
             /\ \E j \in 1..Len(given) : given[j] = new[i]
             /\ \A j \in 1..(i - 1) : new[j] # new[i]
             /\ \A j \in (Len(old) + 1)..(i - 1) : First(new[j]) < First(new[i])

\* C20: for a Group made by its constructor and changed by += any number of
\* times, unpack() gives the parts in the order of their insertion, and
\* clear() takes all the parts out, so that unpack() is empty right after
\* it, and returns the group itself.
C20_ClearEmpties ==
    [][/\ ret'.op = "Group" =>
             InOrder(<<>>, Group_unpack(heap', ret'.self),
                     [i \in 1..Len(ret'.list) |->
                        IF ret'.list[i].obj = 0 THEN 0 ELSE actor(heap, ret'.list[i].obj)])
       /\ (ret'.op = "iadd" /\ ret'.kind = "self") =>
             InOrder(Group_unpack(heap, ret'.self), Group_unpack(heap', ret'.self),
                     Objs(ret'.list))
       /\ ret'.op = "clear" =>
             /\ Objs(ret'.list) = Group_unpack(heap, ret'.self)
             /\ Group_unpack(heap', ret'.self) = <<>>
             /\ ret'.kind = "self"]_vars

\* clear() has emptied a group of two parts.
C20_Witness ==
    /\ ret.op = "clear" /\ ret.kind = "self"
    /\ Len(ret.list) = 2
    /\ heap[ret.self].parts = <<>>

\* C21: for a list that is not empty, the values all equal or not, and
\* numberOfBands >= 2, makeBands returns a list as long as the input in
\* which each value is replaced by the centre of the band it lies in (the
\* centre is one of the band centres and is at most half a band away); for
\* numberOfBands < 2 it returns the input as it is.
C21_BandsSameLength ==
    (args.fn = "makeBands" /\ result # NoResult) =>
        LET inputlist == args.inputlist
            n == args.numberOfBands
        IN  /\ Len(result.vals) = Len(inputlist)
            /\ n < 2 => \A i \in 1..Len(inputlist) : result.vals[i] = <<inputlist[i], 1>>
            /\ n >= 2 =>
                 \A i \in 1..Len(inputlist) :
                    /\ \E j \in 0..(n - 1) : result.vals[i] = <<bb(inputlist, n, j), 2 * n>>
                    /\ Abs(inputlist[i] * 2 * n - result.vals[i][1])
                          <= SeqMax(inputlist) - SeqMin(inputlist)

\* The square of the distance between two points.
Dist2(a, b) ==
    (a[1] - b[1]) * (a[1] - b[1]) + (a[2] - b[2]) * (a[2] - b[2])
        + (a[3] - b[3]) * (a[3] - b[3])

\* C22: the camera cameraFromQuaternion(pos, quaternion, distance) returns
\* has the argument pos as its focal point and is at the given distance
\* from pos (so that calls that differ in pos only give cameras with
\* different focal points).
C22_FocalIsPos ==
    (args.fn = "cameraFromQuaternion" /\ result # NoResult) =>
        /\ result.focal = args.pos
        /\ Dist2(result.position, args.pos) = args.distance * args.distance

\* C23: pb.print(counts=c) sets the count of the bar to c brought into
\* [start, stop], for every integer c, 0 too; it does not move the count on
\* by step.
C23_PrintSetsCount ==
    [][(args'.fn = "print" /\ args'.given) =>
        pb'.counts = (IF args'.counts < pb.start THEN pb.start
                      ELSE IF args'.counts > pb.stop THEN pb.stop
                      ELSE args'.counts)]_vars

\* C24: on the slow path a row of 3 indices gives exactly one triangle cell
\* and a row of any length other than 3 and 4 exactly one n-gon cell; the
\* cell lists all the indices of the row, each less indexOffset, in the
\* order of the row.
C24_OneCellPerRow ==
    [][(Builds /\ SlowCase) =>
        LET rows  == faces.rows
            cells == poly'.polys
        IN  /\ Len(cells) = CellsBefore(rows, Len(rows))
            /\ \A j \in 1..Len(rows) :
                 Len(rows[j]) # 4 =>
                   /\ CellsBefore(rows, j) = CellsBefore(rows, j - 1) + 1
                   /\ cells[CellsBefore(rows, j)]
                        = [i \in 1..Len(rows[j]) |-> rows[j][i] - indexOffset]]_vars

C24_Witness ==
    /\ Built /\ SlowCase /\ calls = 1 /\ indexOffset = 1
    /\ faces = Some(<< <<1, 2, 3>>, <<1, 2, 3, 4, 5>> >>)
    /\ poly.polys = << <<0, 1, 2>>, <<0, 1, 2, 3, 4>> >>

\* C25: progress is reported if and only if the faces are handled on the
\* slow path and there are more than 25000 of them.  A slow-path build of
\* 25000 faces or fewer has no bar, nor has a fast-path build of any size;
\* a slow-path build of more than 25000 faces has one from the start of the
\* loop, and each face moves its count on by one.
C25_ProgressIffLarge ==
    [][/\ pc = "faces" =>
            /\ showbar' = (slowpath /\ nfaces > 25000)
            /\ pb' # NoBar <=> (slowpath /\ nfaces > 25000)
       /\ done' = done + 1 =>
            /\ pb' # pb <=> (slowpath /\ nfaces > 25000)
            /\ (slowpath /\ nfaces > 25000) => pb'.counts = pb.counts + 1
       /\ pc' = "done" =>
            pb'.counts = (IF slowpath /\ nfaces > 25000 THEN nfaces ELSE 0)]_vars

\* A slow-path build of exactly 25000 faces is over and no bar was made.
C25_Witness ==
    /\ pc = "done" /\ slowpath
    /\ nfaces = 25000 /\ done = nfaces
    /\ ~showbar /\ pb = NoBar

\* How many times x comes in the sequence xs.
Count(xs, x) == Cardinality({i \in 1..Len(xs) : xs[i] = x})

\* C26: once an Assembly is constructed, and after any number of +, its
\* lists objects and actors have one length and actors[i] is
\* objects[i].actor for every i; the falsy items given to the constructor
\* are in neither list, every other item is in objects as often as it was
\* given.
C26_ObjectsAndActors ==
    [][/\ \A a \in Assemblies(heap') :
            /\ Len(heap'[a].objects) = Len(heap'[a].actors)
            /\ \A i \in 1..Len(heap'[a].objects) :
                 /\ heap'[a].objects[i] # 0
                 /\ heap'[a].actors[i] = actor(heap', heap'[a].objects[i])
       /\ ret'.op = "Assembly" =>
            \A x \in Ids :
               Count(heap'[ret'.self].objects, x) = Count(Objs(ret'.list), x)]_vars

\* An assembly was constructed from None and an object, and holds the
\* object only.
C26_Witness ==
    /\ ret.op = "Assembly"
    /\ Len(ret.list) = 2 /\ ret.list[1].obj = 0 /\ ret.list[2].obj # 0
    /\ heap[ret.self].objects = <<ret.list[2].obj>>
    /\ heap[ret.self].actors = <<actor(heap, ret.list[2].obj)>>

=============================================================================
